---- MODULE Spec2Model ----
(***************************************************************************)
(* Model of inogf: per-interface reactive state machines (interface.go)    *)
(* driven by the gNMI notifications the event loop dispatches and backed   *)
(* by an in-memory IP database (ipdb.go).                                  *)
(*                                                                         *)
(* Every event handler takes the interface's mutex for its whole body, so  *)
(* one handler is one atomic action.  A timer created by time.AfterFunc    *)
(* expires in one step (its callback goroutine is started) and the         *)
(* callback, timerEventHandler, runs in a later step.                      *)
(***************************************************************************)
EXTENDS Integers, Sequences, FiniteSets, TLC

(***************************************************************************)
(* Bounds of the model.                                                    *)
(***************************************************************************)
\* Number of addresses initIPs puts in the pool (main passes 200).
NumIPs == 2
\* Timer callbacks of one interface that were started and have not run yet.
MaxPending == 1
\* Arbitrary events handled before the scripted delivery of IdemSpec.
MaxWarm == 5
\* Timers of one interface that are armed or whose callback has not returned.
MaxTimers == 2

\* The interface names the stream talks about.
Ifaces == {"Ethernet1", "Ethernet2"}

(***************************************************************************)
(* Program constants.                                                      *)
(***************************************************************************)
\* State machine states (interface.go).
unknown == 0
adminDown == 1
adminUp == 2
configured == 3

\* The prefix length main hands to initIPs.
DBPrefixLen == 24
\* What getIP answers when the pool is exhausted.
ExhaustedIP == "1.1.1.1"
ExhaustedPrefixLen == 32

(***************************************************************************)
(* Go maps as functions: m[k] = v, delete(m, k), the empty map.            *)
(***************************************************************************)
EmptyMap == [k \in {} |-> ""]
Put(m, k, v) == [x \in DOMAIN m \cup {k} |-> IF x = k THEN v ELSE m[x]]
Delete(m, k) == [x \in DOMAIN m \ {k} |-> m[x]]

(***************************************************************************)
(* strconv.Atoi on the decimal strings of the stream: an optional sign     *)
(* followed by one or more digits; anything else is an error and the       *)
(* value returned with the error is 0.                                     *)
(***************************************************************************)
DigitVal == [d \in {"0", "1", "2", "3", "4", "5", "6", "7", "8", "9"} |->
               CASE d = "0" -> 0 [] d = "1" -> 1 [] d = "2" -> 2 [] d = "3" -> 3
                 [] d = "4" -> 4 [] d = "5" -> 5 [] d = "6" -> 6 [] d = "7" -> 7
                 [] d = "8" -> 8 [] d = "9" -> 9]

RECURSIVE DigitsValue(_, _)
\* The value of the digit string s read after the accumulator acc, or -1 when
\* s holds a character that is no digit.
DigitsValue(s, acc) ==
    IF Len(s) = 0 THEN acc
    ELSE LET ch == SubSeq(s, 1, 1) IN
         IF ch \in DOMAIN DigitVal
         THEN DigitsValue(SubSeq(s, 2, Len(s)), acc * 10 + DigitVal[ch])
         ELSE -1

Atoi(s) ==
    LET signed == Len(s) > 0 /\ SubSeq(s, 1, 1) \in {"+", "-"}
        body   == IF signed THEN SubSeq(s, 2, Len(s)) ELSE s
        v      == IF Len(body) = 0 THEN -1 ELSE DigitsValue(body, 0)
    IN IF v < 0 THEN [n |-> 0, err |-> TRUE]
       ELSE [n |-> IF signed /\ SubSeq(s, 1, 1) = "-" THEN 0 - v ELSE v, err |-> FALSE]

(***************************************************************************)
(* ipdb.go                                                                 *)
(***************************************************************************)
\* fmt.Sprintf("10.0.%d.1", i)
ipName(i) == "10.0." \o ToString(i) \o ".1"

\* The addresses initIPs creates.
InitialPool == {ipName(i) : i \in 1..NumIPs}

initIPs(n, prefixLen) ==
    [ips        |-> [k \in {ipName(i) : i \in 1..n} |-> ""],
     interfaces |-> EmptyMap,
     prefixLen  |-> prefixLen]

\* getIP: the possible results [db, ip, prefixLen].  The range over db.ips
\* visits the keys in an order Go leaves unspecified, so any unassigned
\* key may be the one that is taken.
getIP(db, iface) ==
    IF iface \in DOMAIN db.interfaces
    THEN {[db |-> db, ip |-> db.interfaces[iface], prefixLen |-> db.prefixLen]}
    ELSE LET free == {k \in DOMAIN db.ips : db.ips[k] = ""} IN
         IF free # {}
         THEN {[db |-> [db EXCEPT !.ips = Put(@, k, iface),
                                  !.interfaces = Put(@, iface, k)],
                ip |-> k, prefixLen |-> db.prefixLen] : k \in free}
         ELSE {[db |-> db, ip |-> ExhaustedIP, prefixLen |-> ExhaustedPrefixLen]}

\* reconcile without the test of who holds the address.
reconcile_noOwnerTest(db, iface, ip, prefixLen) ==
    IF ip \in DOMAIN db.ips
    THEN {[db |-> [db EXCEPT !.ips = Put(@, ip, iface),
                             !.interfaces = Put(@, iface, ip)],
           ip |-> ip, prefixLen |-> db.prefixLen, ok |-> prefixLen = db.prefixLen]}
    ELSE {[db |-> r.db, ip |-> r.ip, prefixLen |-> r.prefixLen, ok |-> FALSE] :
            r \in getIP(db, iface)}

\* reconcile answering the prefix length it was given.
reconcile_givenPrefixLen(db, iface, ip, prefixLen) ==
    IF ip \in DOMAIN db.ips /\ (db.ips[ip] = "" \/ db.ips[ip] = iface)
    THEN {[db |-> [db EXCEPT !.ips = Put(@, ip, iface),
                             !.interfaces = Put(@, iface, ip)],
           ip |-> ip, prefixLen |-> prefixLen, ok |-> prefixLen = db.prefixLen]}
    ELSE {[db |-> r.db, ip |-> r.ip, prefixLen |-> r.prefixLen, ok |-> FALSE] :
            r \in getIP(db, iface)}

\* reconcile: the possible results [db, ip, prefixLen, ok].
reconcile(db, iface, ip, prefixLen) ==
    IF ip \in DOMAIN db.ips /\ (db.ips[ip] = "" \/ db.ips[ip] = iface)
    THEN {[db |-> [db EXCEPT !.ips = Put(@, ip, iface),
                             !.interfaces = Put(@, iface, ip)],
           ip |-> ip, prefixLen |-> db.prefixLen, ok |-> prefixLen = db.prefixLen]}
    ELSE {[db |-> r.db, ip |-> r.ip, prefixLen |-> r.prefixLen, ok |-> FALSE] :
            r \in getIP(db, iface)}

\* releaseIP that forgets the reverse map only.
releaseIP_keepsPool(db, ip) ==
    IF ip \in DOMAIN db.ips
    THEN [db EXCEPT !.interfaces = Delete(@, db.ips[ip])]
    ELSE db

\* releaseIP: the database afterwards.  The assignment db.ips[ip] = "" is
\* outside the membership test, so it also runs for an ip that is no key.
releaseIP(db, ip) ==
    LET d1 == IF ip \in DOMAIN db.ips
              THEN [db EXCEPT !.interfaces = Delete(@, db.ips[ip])]
              ELSE db
    IN [d1 EXCEPT !.ips = Put(@, ip, "")]

(***************************************************************************)
(* main.go: setPrefix sends one gNMI update; the model keeps the request.  *)
(***************************************************************************)
setPrefix(iface, prefix, prefixLen) ==
    [iface |-> iface, prefix |-> prefix, prefixLen |-> prefixLen]

(***************************************************************************)
(* interface.go: the state machine.  A transition works on a context       *)
(*   [sm, db, lost, ups, down, cfg, out]                                   *)
(* sm the interfaceSm, db the ipDB, lost the number of armed timers whose  *)
(* handle the transition dropped, ups the number of runs of adminUp(),     *)
(* down one record per run of adminDown() and cfg one per run of           *)
(* configured(), each with what the method was entered with, and out the   *)
(* setPrefix requests sent.                                                *)
(***************************************************************************)
\* sm.timer is only tested against nil to decide on Stop(), and Stop() of a
\* timer that was stopped or has fired does nothing: the model keeps whether
\* sm.timer refers to an armed timer ("idle" is nil, stopped or fired).
TimerStates == {"idle", "armed"}

\* The interfaceSm getInterfaceSm creates.
NewSm(iface) ==
    [state |-> unknown, name |-> iface, prefix |-> "", prefixLen |-> 0, timer |-> "idle"]

getInterfaceSm(ifs, iface) ==
    IF iface \in DOMAIN ifs THEN ifs ELSE Put(ifs, iface, NewSm(iface))

configComplete(sm) == sm.prefix # "" /\ sm.prefixLen > 0

\* What adminDown() was entered with.
DownEntry(c) == [iface |-> c.sm.name, state |-> c.sm.state, prefix |-> c.sm.prefix]

sm_adminDown(c) ==
    [c EXCEPT !.sm = [@ EXCEPT !.state = adminDown,
                               !.timer = "idle"],
              !.db = releaseIP(c.db, c.sm.prefix),
              !.down = Append(@, DownEntry(c))]

\* adminUp that starts no timer.
sm_adminUp_noTimer(c) ==
    [c EXCEPT !.sm = [@ EXCEPT !.state = adminUp], !.ups = @ + 1]

sm_adminUp(c) ==
    LET s1 == [c.sm EXCEPT !.state = adminUp] IN
    IF ~configComplete(s1)
    THEN [c EXCEPT !.sm = [s1 EXCEPT !.timer = "armed"],
                   !.lost = @ + (IF c.sm.timer = "armed" THEN 1 ELSE 0),
                   !.ups = @ + 1]
    ELSE [c EXCEPT !.sm = s1, !.ups = @ + 1]

\* What configured() was entered with, and who held the address then.
CfgEntry(c) ==
    [iface     |-> c.sm.name,
     prefix    |-> c.sm.prefix,
     prefixLen |-> c.sm.prefixLen,
     complete  |-> configComplete(c.sm),
     inPool    |-> c.sm.prefix \in DOMAIN c.db.ips,
     owner     |-> IF c.sm.prefix \in DOMAIN c.db.ips THEN c.db.ips[c.sm.prefix] ELSE ""]

\* configured going on to setPrefix after a successful reconcile.
sm_configured_noReturn(c) ==
    LET s1 == [c.sm EXCEPT !.state = configured]
        c1 == [c EXCEPT !.sm = s1, !.cfg = Append(@, CfgEntry(c))]
        set(r) == [c1 EXCEPT !.sm = [@ EXCEPT !.prefix = r.ip, !.prefixLen = r.prefixLen],
                             !.db = r.db]
        push(c2) == [c2 EXCEPT !.out = Append(@, setPrefix(c2.sm.name, c2.sm.prefix,
                                                       c2.sm.prefixLen))]
    IN IF configComplete(s1)
       THEN {push(set(r)) : r \in reconcile(c.db, s1.name, s1.prefix, s1.prefixLen)}
       ELSE {push(set(r)) : r \in getIP(c.db, s1.name)}

\* configured: the possible contexts afterwards.
sm_configured(c) ==
    LET s1 == [c.sm EXCEPT !.state = configured]
        c1 == [c EXCEPT !.sm = s1, !.cfg = Append(@, CfgEntry(c))]
        set(r) == [c1 EXCEPT !.sm = [@ EXCEPT !.prefix = r.ip, !.prefixLen = r.prefixLen],
                             !.db = r.db]
        push(c2) == [c2 EXCEPT !.out = Append(@, setPrefix(c2.sm.name, c2.sm.prefix,
                                                       c2.sm.prefixLen))]
    IN IF configComplete(s1)
       THEN {IF r.ok THEN set(r) ELSE push(set(r)) :
               r \in reconcile(c.db, s1.name, s1.prefix, s1.prefixLen)}
       ELSE {push(set(r)) : r \in getIP(c.db, s1.name)}

\* adminStatusEventHandler handling "UP" in every state.
adminStatusEventHandler_upAnywhere(c, value) ==
    CASE value = "UP" ->
           LET c1 == sm_adminUp(c) IN
           IF configComplete(c1.sm) THEN sm_configured(c1) ELSE {c1}
      [] value = "DOWN" -> {sm_adminDown(c)}
      [] OTHER -> {c}

adminStatusEventHandler(c, value) ==
    CASE value = "UP" ->
           IF c.sm.state > adminDown THEN {c}
           ELSE LET c1 == sm_adminUp(c) IN
                IF configComplete(c1.sm) THEN sm_configured(c1) ELSE {c1}
      [] value = "DOWN" -> {sm_adminDown(c)}
      [] OTHER -> {c}

\* prefixEventHandler going on to configured() in the configured state too.
prefixEventHandler_fromConfigured(c, value) ==
    LET c1 == [c EXCEPT !.sm.prefix = value] IN
    IF c1.sm.state < adminUp THEN {c1}
    ELSE IF configComplete(c1.sm) THEN sm_configured(c1) ELSE {c1}

prefixEventHandler(c, value) ==
    LET c1 == [c EXCEPT !.sm.prefix = value] IN
    IF c1.sm.state # adminUp THEN {c1}
    ELSE IF configComplete(c1.sm) THEN sm_configured(c1) ELSE {c1}

prefixLenEventHandler(c, value) ==
    LET c1 == [c EXCEPT !.sm.prefixLen = Atoi(value).n] IN
    IF c1.sm.state # adminUp THEN {c1}
    ELSE IF configComplete(c1.sm) THEN sm_configured(c1) ELSE {c1}

timerEventHandler(c) ==
    IF c.sm.state # adminUp THEN {c}
    ELSE sm_configured([c EXCEPT !.sm.timer = "idle",
                                 !.lost = @ + (IF c.sm.timer = "armed" THEN 1 ELSE 0)])

(***************************************************************************)
(* The values the stream delivers.                                         *)
(***************************************************************************)
\* Ethernet1 streams every kind of value; Ethernet2 is the competitor for the
\* pool, which streams its admin status only.
AdminValues ==
    [iface \in Ifaces |-> IF iface = "Ethernet1" THEN {"UP", "DOWN", "TESTING"} ELSE {"UP", "DOWN"}]
PrefixValues ==
    [iface \in Ifaces |-> IF iface = "Ethernet1" THEN {"", ipName(1), ExhaustedIP} ELSE {}]
PrefixLenValues ==
    [iface \in Ifaces |-> IF iface = "Ethernet1" THEN {"24", "30", "abc"} ELSE {}]

\* The smaller stream of LiveSpec.
LiveAdminValues == [iface \in Ifaces |-> {"UP", "DOWN"}]
LivePrefixValues == [iface \in Ifaces |-> IF iface = "Ethernet1" THEN {ipName(1)} ELSE {}]
LivePrefixLenValues == [iface \in Ifaces |-> IF iface = "Ethernet1" THEN {"24"} ELSE {}]

(***************************************************************************)
(* Threads: the goroutine of eventLoop, and one goroutine per timer of     *)
(* time.AfterFunc, which runs timerEventHandler of the timer's interface.  *)
(***************************************************************************)
LoopId == [iface |-> "", n |-> 0]
CallbackIds == [iface : Ifaces, n : 1..MaxTimers]
ThreadIds == {LoopId} \cup CallbackIds
\* The holder of a mutex nobody holds.
NoThread == [iface |-> "", n |-> -1]

\* A thread in no handler.  kind, iface and value are the handler it runs and
\* its arguments, k the local of the database method it is in (the key getIP
\* found unassigned, the holder releaseIP read), stale whether the interface
\* entered adminDown after the timer of this callback was armed.
IdleThread ==
    [pc |-> "idle", iface |-> "", kind |-> "", value |-> "", k |-> "", stale |-> FALSE]

\* The stream of ThreadSpec and DeviceSpec: Ethernet2 comes up and stays up.
ThreadAdminValues ==
    [iface \in Ifaces |-> IF iface = "Ethernet1" THEN {"UP", "DOWN"} ELSE {"UP"}]

(***************************************************************************)
(* The gNMI target.                                                        *)
(***************************************************************************)
\* An interface of the target with no address configured.
NoAddress == [prefix |-> "", prefixLen |-> 0]

\* A target with no address on any interface that has been sent no request.
NoDevice ==
    [config  |-> [i \in Ifaces |-> NoAddress],
     replies |-> <<>>,
     owed    |-> [i \in Ifaces |-> FALSE]]

(***************************************************************************)
(* State.                                                                  *)
(*   interfaces  the global map from interface name to its interfaceSm     *)
(*   ipDB        the global IP database                                    *)
(*   pending     per interface, the timer callbacks that will still run:   *)
(*               started by an expired timer and not run yet, or armed     *)
(*               with no handle left to stop them                          *)
(*   log         what the step taken last did: the runs of adminDown()     *)
(*               and of configured() and the setPrefix requests sent       *)
(*   cfgRuns     per interface, the runs of configured() since adminUp()   *)
(*   script      bookkeeping of the duplicate-delivery runs (IdemSpec)     *)
(*   threads     the position and the locals of the event loop and of      *)
(*               every timer callback (ThreadSpec, where a handler is a    *)
(*               sequence of steps; elsewhere all of them are idle)        *)
(*   mu          per interface, the thread that holds sm.mu                *)
(*   fatal       the Go runtime has ended the process                      *)
(*   device      the gNMI target (DeviceSpec): the address and prefix      *)
(*               length each interface is configured with, its replies to  *)
(*               the setPrefix requests of the step taken last, and per    *)
(*               interface whether its last setPrefix request failed       *)
(***************************************************************************)
VARIABLES interfaces, ipDB, pending, log, cfgRuns, script, threads, mu, fatal, device

vars == <<interfaces, ipDB, pending, log, cfgRuns, script, threads, mu, fatal, device>>

\* What the specifications with atomic handlers leave alone.
threadVars == <<threads, mu, fatal>>

EmptyLog == [down |-> <<>>, cfg |-> <<>>, out |-> <<>>]

ScriptOff == [phase |-> "off"]

InitProgram ==
    /\ interfaces = EmptyMap
    /\ ipDB = initIPs(NumIPs, DBPrefixLen)
    /\ pending = [i \in Ifaces |-> 0]
    /\ log = EmptyLog
    /\ cfgRuns = [i \in Ifaces |-> 0]
    /\ threads = [t \in ThreadIds |-> IdleThread]
    /\ mu = [i \in Ifaces |-> NoThread]
    /\ fatal = FALSE
    /\ device = NoDevice

Init == InitProgram /\ script = ScriptOff

\* The context a handler of interface iface starts with.
Ctx(iface) ==
    [sm |-> getInterfaceSm(interfaces, iface)[iface], db |-> ipDB,
     lost |-> 0, ups |-> 0, down |-> <<>>, cfg |-> <<>>, out |-> <<>>]

\* The state after a handler of interface iface ended with the context c1;
\* used is 1 when the handler is a timer callback.
Commit(iface, c1, used) ==
    /\ pending[iface] - used + c1.lost <= MaxPending
    /\ interfaces' = Put(interfaces, iface, c1.sm)
    /\ ipDB' = c1.db
    /\ pending' = [pending EXCEPT ![iface] = @ - used + c1.lost]
    /\ log' = [down |-> c1.down, cfg |-> c1.cfg, out |-> c1.out]
    /\ cfgRuns' = [cfgRuns EXCEPT ![iface] =
                     IF c1.ups > 0 THEN Len(c1.cfg)
                     ELSE IF c1.sm.state = adminDown THEN 0
                     ELSE @ + Len(c1.cfg)]

\* dispatchEvent, one case per event type.
AdminStatusEvent(iface, value) ==
    \E c1 \in adminStatusEventHandler(Ctx(iface), value) :
        Commit(iface, c1, 0)

PrefixEvent(iface, value) ==
    \E c1 \in prefixEventHandler(Ctx(iface), value) :
        Commit(iface, c1, 0)

PrefixLenEvent(iface, value) ==
    \E c1 \in prefixLenEventHandler(Ctx(iface), value) :
        Commit(iface, c1, 0)

\* The 20 seconds of the timer sm.timer elapse: the runtime starts the
\* callback, which then waits for the interface's mutex.
TimerExpire(iface) ==
    /\ iface \in DOMAIN interfaces
    /\ interfaces[iface].timer = "armed"
    /\ pending[iface] < MaxPending
    /\ interfaces' = [interfaces EXCEPT ![iface].timer = "idle"]
    /\ pending' = [pending EXCEPT ![iface] = @ + 1]
    /\ log' = EmptyLog
    /\ UNCHANGED <<ipDB, cfgRuns>>

\* A started callback runs timerEventHandler.
TimerEvent(iface) ==
    /\ iface \in DOMAIN interfaces
    /\ pending[iface] > 0
    /\ \E c1 \in timerEventHandler(Ctx(iface)) :
           Commit(iface, c1, 1)

\* The event loop dispatches one notification of the stream, whose value
\* is drawn from A, P or L.
AdminStatusStep(A) == \E i \in Ifaces : \E v \in A[i] : AdminStatusEvent(i, v)
PrefixStep(P) == \E i \in Ifaces : \E v \in P[i] : PrefixEvent(i, v)
PrefixLenStep(L) == \E i \in Ifaces : \E v \in L[i] : PrefixLenEvent(i, v)
\* A timer acts.
TimerExpireStep == \E i \in Ifaces : TimerExpire(i)
TimerStep == \E i \in Ifaces : TimerEvent(i)

Step ==
    \/ AdminStatusStep(AdminValues)
    \/ PrefixStep(PrefixValues)
    \/ PrefixLenStep(PrefixLenValues)
    \/ TimerExpireStep
    \/ TimerStep

Next ==
    \/ AdminStatusStep(AdminValues) /\ UNCHANGED <<script, threadVars, device>>
    \/ PrefixStep(PrefixValues) /\ UNCHANGED <<script, threadVars, device>>
    \/ PrefixLenStep(PrefixLenValues) /\ UNCHANGED <<script, threadVars, device>>
    \/ TimerExpireStep /\ UNCHANGED <<script, threadVars, device>>
    \/ TimerStep /\ UNCHANGED <<script, threadVars, device>>

Spec == Init /\ [][Next]_vars

(***************************************************************************)
(* Duplicate delivery.  After at most MaxWarm arbitrary steps the stream   *)
(* delivers one AdminStatus, one Address and one PrefixLength value of     *)
(* one interface in some order, and then the same three again in some      *)
(* order; no timer acts in between.  script keeps the values, the kinds    *)
(* still to deliver, the state after the first delivery and the number of  *)
(* setPrefix requests sent since the first delivery began.                 *)
(***************************************************************************)
Kinds == {"adminStatus", "prefix", "prefixLen"}

\* The interface whose notifications are delivered twice.
ScriptIfaces == {"Ethernet1"}

IdemInit == InitProgram /\ script = [phase |-> "warm", n |-> 0]

Warm ==
    /\ script.phase = "warm"
    /\ script.n < MaxWarm
    /\ Step
    /\ script' = [script EXCEPT !.n = @ + 1]
    /\ UNCHANGED <<threadVars, device>>

Begin ==
    /\ script.phase = "warm"
    /\ \E i \in ScriptIfaces : \E a \in AdminValues[i] : \E p \in PrefixValues[i] :
         \E l \in PrefixLenValues[i] :
           script' = [phase |-> "first", iface |-> i,
                      vals |-> [adminStatus |-> a, prefix |-> p, prefixLen |-> l],
                      todo |-> Kinds, mark |-> unknown, pushes |-> 0]
    /\ UNCHANGED <<interfaces, ipDB, pending, log, cfgRuns, threadVars, device>>

Deliver(kind) ==
    /\ script.phase \in {"first", "second"}
    /\ kind \in script.todo
    /\ CASE kind = "adminStatus" -> AdminStatusEvent(script.iface, script.vals[kind])
         [] kind = "prefix" -> PrefixEvent(script.iface, script.vals[kind])
         [] kind = "prefixLen" -> PrefixLenEvent(script.iface, script.vals[kind])
    /\ script' =
         LET rest == script.todo \ {kind}
             sent == script.pushes + Len(log'.out)
         IN IF rest # {} THEN [script EXCEPT !.todo = rest, !.pushes = sent]
            ELSE IF script.phase = "first"
                 THEN [script EXCEPT !.phase = "second", !.todo = Kinds, !.pushes = sent,
                                     !.mark = interfaces'[script.iface].state]
                 ELSE [script EXCEPT !.phase = "done", !.todo = {}, !.pushes = sent]
    /\ UNCHANGED <<threadVars, device>>

IdemNext ==
    \/ Warm
    \/ Begin
    \/ \E kind \in Kinds : Deliver(kind)

IdemSpec == IdemInit /\ [][IdemNext]_vars

\* The runtime starts the callback of an armed timer once its 20 seconds have
\* elapsed, and a started callback gets the interface's mutex, which every
\* handler releases when it returns.
Fairness ==
    \A i \in Ifaces : WF_vars(TimerExpire(i) /\ UNCHANGED <<script, threadVars, device>>)
                       /\ WF_vars(TimerEvent(i) /\ UNCHANGED <<script, threadVars, device>>)

LiveNext ==
    \/ AdminStatusStep(LiveAdminValues) /\ UNCHANGED <<script, threadVars, device>>
    \/ PrefixStep(LivePrefixValues) /\ UNCHANGED <<script, threadVars, device>>
    \/ PrefixLenStep(LivePrefixLenValues) /\ UNCHANGED <<script, threadVars, device>>
    \/ TimerExpireStep /\ UNCHANGED <<script, threadVars, device>>
    \/ TimerStep /\ UNCHANGED <<script, threadVars, device>>

LiveSpec == Init /\ [][LiveNext]_vars /\ Fairness

\* The stream with every fragment value of Ethernet1 and the admin status of
\* ThreadAdminValues.
FragNext ==
    \/ AdminStatusStep(ThreadAdminValues) /\ UNCHANGED <<script, threadVars, device>>
    \/ PrefixStep(PrefixValues) /\ UNCHANGED <<script, threadVars, device>>
    \/ PrefixLenStep(PrefixLenValues) /\ UNCHANGED <<script, threadVars, device>>
    \/ TimerExpireStep /\ UNCHANGED <<script, threadVars, device>>
    \/ TimerStep /\ UNCHANGED <<script, threadVars, device>>

FragSpec == Init /\ [][FragNext]_vars

(***************************************************************************)
(* Exhaustion.  The pool has one address fewer than there are interfaces,  *)
(* and the stream names addresses of the pool only, so an interface        *)
(* records 1.1.1.1 only when getIP found no unassigned address.            *)
(***************************************************************************)
ExhInit ==
    /\ interfaces = EmptyMap
    /\ ipDB = initIPs(Cardinality(Ifaces) - 1, DBPrefixLen)
    /\ pending = [i \in Ifaces |-> 0]
    /\ log = EmptyLog
    /\ cfgRuns = [i \in Ifaces |-> 0]
    /\ threads = [t \in ThreadIds |-> IdleThread]
    /\ mu = [i \in Ifaces |-> NoThread]
    /\ fatal = FALSE
    /\ device = NoDevice
    /\ script = ScriptOff

ExhSpec == ExhInit /\ [][LiveNext]_vars

(***************************************************************************)
(* Threads at the granularity of the steps of a handler.  A handler takes  *)
(* sm.mu, runs the part that touches the interfaceSm only, goes through    *)
(* the reads and writes of the maps of ipDB one at a time, calls setPrefix *)
(* and waits for it to return, and releases sm.mu.  The fields of the      *)
(* interfaceSm are touched by the holder of sm.mu only, so the steps on    *)
(* them are taken together with the step that follows.  The range loop of  *)
(* getIP is one read of the pool that finds an unassigned key.             *)
(*   pc: idle, armed (a timer without handle), lock, body, rec_read,       *)
(*       rec_w1, rec_w2, get_lookup, get_scan, get_w1, get_w2, rel_read,   *)
(*       rel_del, rel_w, push, unlock                                      *)
(***************************************************************************)
\* The handlers that begin with sm.mu.Lock() and defer sm.mu.Unlock().
LockedHandlers_timerUnlocked == {"adminStatus", "prefix", "prefixLen"}

LockedHandlers == {"adminStatus", "prefix", "prefixLen", "timer"}

\* Where the next step of a thread reads, or writes, a map of ipDB.
DBReadPcs == {"rec_read", "get_lookup", "get_scan", "rel_read"}
DBWritePcs == {"rec_w1", "rec_w2", "get_w1", "get_w2", "rel_del", "rel_w"}
DBPcs == DBReadPcs \cup DBWritePcs
\* Where a thread is inside configured().
CfgPcs == {"rec_read", "rec_w1", "rec_w2", "get_lookup", "get_scan", "get_w1",
           "get_w2", "push"}
\* Where a thread is between sm.mu.Lock() and sm.mu.Unlock().
CriticalPcs == {"body", "unlock"} \cup DBPcs \cup {"push"}

\* One mutex for the handlers of all interfaces.
MutexOf_global(iface) == "Ethernet1"

\* The mutex a handler of interface iface locks: the field mu of the
\* interface's own interfaceSm.
MutexOf(iface) == iface

\* The callbacks of interface i, and the timers of i that are armed or whose
\* callback has not returned.
Callbacks(i) == {t \in CallbackIds : t.iface = i /\ threads[t].pc # "idle"}
Alive(i) ==
    Cardinality(Callbacks(i))
      + (IF i \in DOMAIN interfaces /\ interfaces[i].timer = "armed" THEN 1 ELSE 0)
\* The goroutine a timer of interface i gets.
FreeSlot(i) ==
    CHOOSE t \in CallbackIds :
        /\ t.iface = i /\ threads[t].pc = "idle"
        /\ \A u \in CallbackIds : (u.iface = i /\ threads[u].pc = "idle") => t.n <= u.n

\* The context of the methods that touch the interfaceSm only.
SmCtx(sm) ==
    [sm |-> sm, db |-> ipDB, lost |-> 0, ups |-> 0, down |-> <<>>, cfg |-> <<>>, out |-> <<>>]

\* What the steps of a thread leave alone.
ThreadFrame == UNCHANGED <<pending, log, cfgRuns, script, device>>

\* The event loop takes a notification of the stream and calls the handler of
\* dispatchEvent, which begins by waiting for sm.mu.
Dispatch(iface, kind, value) ==
    /\ ~fatal
    /\ threads[LoopId].pc = "idle"
    /\ (kind = "adminStatus" /\ value = "UP") => Alive(iface) < MaxTimers
    /\ interfaces' = getInterfaceSm(interfaces, iface)
    /\ threads' = [threads EXCEPT ![LoopId] =
                     [IdleThread EXCEPT !.pc = "lock", !.iface = iface,
                                        !.kind = kind, !.value = value]]
    /\ UNCHANGED <<ipDB, mu, fatal>>
    /\ ThreadFrame

\* The timer sm.timer refers to expires: its goroutine calls
\* timerEventHandler.
TimerFire(iface) ==
    /\ ~fatal
    /\ iface \in DOMAIN interfaces
    /\ interfaces[iface].timer = "armed"
    /\ interfaces' = [interfaces EXCEPT ![iface].timer = "idle"]
    /\ threads' = [threads EXCEPT ![FreeSlot(iface)] =
                     [IdleThread EXCEPT !.pc = "lock", !.iface = iface, !.kind = "timer"]]
    /\ UNCHANGED <<ipDB, mu, fatal>>
    /\ ThreadFrame

\* A timer sm.timer no longer refers to expires.
OrphanFire(t) ==
    /\ ~fatal
    /\ threads[t].pc = "armed"
    /\ threads' = [threads EXCEPT ![t].pc = "lock"]
    /\ UNCHANGED <<interfaces, ipDB, mu, fatal>>
    /\ ThreadFrame

\* sm.mu.Lock()
LockStep(t) ==
    /\ ~fatal
    /\ threads[t].pc = "lock"
    /\ IF threads[t].kind \in LockedHandlers
       THEN /\ mu[MutexOf(threads[t].iface)] = NoThread
            /\ mu' = [mu EXCEPT ![MutexOf(threads[t].iface)] = t]
       ELSE mu' = mu
    /\ threads' = [threads EXCEPT ![t].pc = "body"]
    /\ UNCHANGED <<interfaces, ipDB, fatal>>
    /\ ThreadFrame

\* The deferred sm.mu.Unlock() and the return of the handler.
UnlockStep(t) ==
    /\ ~fatal
    /\ threads[t].pc = "unlock"
    /\ mu' = IF threads[t].kind \in LockedHandlers
             THEN [mu EXCEPT ![MutexOf(threads[t].iface)] = NoThread]
             ELSE mu
    /\ threads' = [threads EXCEPT ![t] = IdleThread]
    /\ UNCHANGED <<interfaces, ipDB, fatal>>
    /\ ThreadFrame

\* A handler from sm.mu.Lock() to its first call of ipDB or to its return:
\* the interfaceSm afterwards, where the thread goes on, whether adminDown()
\* ran, and whether timerEventHandler dropped the handle of an armed timer.
HandlerBody(sm, kind, value) ==
    LET done(s) == [sm |-> s, pc |-> "unlock", down |-> FALSE, orphan |-> FALSE]
        cfg(s)  == [sm |-> [s EXCEPT !.state = configured],
                    pc |-> IF configComplete(s) THEN "rec_read" ELSE "get_lookup",
                    down |-> FALSE, orphan |-> FALSE]
        fragment(s) == IF s.state # adminUp THEN done(s)
                       ELSE IF configComplete(s) THEN cfg(s) ELSE done(s)
    IN IF kind = "adminStatus"
       THEN IF value = "UP"
            THEN IF sm.state > adminDown THEN done(sm)
                 ELSE LET s1 == sm_adminUp(SmCtx(sm)).sm IN
                      IF configComplete(s1) THEN cfg(s1) ELSE done(s1)
            ELSE IF value = "DOWN"
            THEN [sm |-> sm_adminDown(SmCtx(sm)).sm, pc |-> "rel_read",
                  down |-> TRUE, orphan |-> FALSE]
            ELSE done(sm)
       ELSE IF kind = "prefix" THEN fragment([sm EXCEPT !.prefix = value])
       ELSE IF kind = "prefixLen" THEN fragment([sm EXCEPT !.prefixLen = Atoi(value).n])
       ELSE IF sm.state # adminUp THEN done(sm)
       ELSE [cfg([sm EXCEPT !.timer = "idle"]) EXCEPT !.orphan = (sm.timer = "armed")]

BodyStep(t) ==
    /\ ~fatal
    /\ threads[t].pc = "body"
    /\ LET i == threads[t].iface
           r == HandlerBody(interfaces[i], threads[t].kind, threads[t].value)
       IN /\ interfaces' = [interfaces EXCEPT ![i] = r.sm]
          /\ threads' =
               [u \in ThreadIds |->
                  IF u = t THEN [threads[t] EXCEPT !.pc = r.pc]
                  ELSE IF r.down /\ u \in Callbacks(i) THEN [threads[u] EXCEPT !.stale = TRUE]
                  ELSE IF r.orphan /\ u = FreeSlot(i)
                       THEN [IdleThread EXCEPT !.pc = "armed", !.iface = i, !.kind = "timer"]
                  ELSE threads[u]]
    /\ UNCHANGED <<ipDB, mu, fatal>>
    /\ ThreadFrame

\* reconcile: v, ok := db.ips[ip]
ReconcileRead(t) ==
    /\ ~fatal
    /\ threads[t].pc = "rec_read"
    /\ LET i == threads[t].iface
           ip == interfaces[i].prefix
       IN threads' = [threads EXCEPT ![t].pc =
                        IF ip \in DOMAIN ipDB.ips /\ (ipDB.ips[ip] = "" \/ ipDB.ips[ip] = i)
                        THEN "rec_w1" ELSE "get_lookup"]
    /\ UNCHANGED <<interfaces, ipDB, mu, fatal>>
    /\ ThreadFrame

\* reconcile: db.ips[ip] = iface
ReconcileWriteIps(t) ==
    /\ ~fatal
    /\ threads[t].pc = "rec_w1"
    /\ ipDB' = [ipDB EXCEPT !.ips = Put(@, interfaces[threads[t].iface].prefix,
                                        threads[t].iface)]
    /\ threads' = [threads EXCEPT ![t].pc = "rec_w2"]
    /\ UNCHANGED <<interfaces, mu, fatal>>
    /\ ThreadFrame

\* reconcile: db.interfaces[iface] = ip, the return, and configured() going
\* on with what reconcile returned.
ReconcileWriteInterfaces(t) ==
    /\ ~fatal
    /\ threads[t].pc = "rec_w2"
    /\ LET i == threads[t].iface
           sm == interfaces[i]
       IN /\ ipDB' = [ipDB EXCEPT !.interfaces = Put(@, i, sm.prefix)]
          /\ interfaces' = [interfaces EXCEPT ![i].prefixLen = ipDB.prefixLen]
          /\ threads' = [threads EXCEPT ![t].pc =
                           IF sm.prefixLen = ipDB.prefixLen THEN "unlock" ELSE "push"]
    /\ UNCHANGED <<mu, fatal>>
    /\ ThreadFrame

\* getIP: addr, ok := db.interfaces[iface]
GetIPLookup(t) ==
    /\ ~fatal
    /\ threads[t].pc = "get_lookup"
    /\ LET i == threads[t].iface IN
       IF i \in DOMAIN ipDB.interfaces
       THEN /\ interfaces' = [interfaces EXCEPT ![i].prefix = ipDB.interfaces[i],
                                                ![i].prefixLen = ipDB.prefixLen]
            /\ threads' = [threads EXCEPT ![t].pc = "push"]
       ELSE /\ interfaces' = interfaces
            /\ threads' = [threads EXCEPT ![t].pc = "get_scan"]
    /\ UNCHANGED <<ipDB, mu, fatal>>
    /\ ThreadFrame

\* getIP: the range over db.ips up to a key whose value is "", or to its end.
GetIPScan(t) ==
    /\ ~fatal
    /\ threads[t].pc = "get_scan"
    /\ LET i == threads[t].iface
           free == {k \in DOMAIN ipDB.ips : ipDB.ips[k] = ""}
       IN IF free # {}
          THEN /\ \E k \in free : threads' = [threads EXCEPT ![t].pc = "get_w1", ![t].k = k]
               /\ interfaces' = interfaces
          ELSE /\ interfaces' = [interfaces EXCEPT ![i].prefix = ExhaustedIP,
                                                   ![i].prefixLen = ExhaustedPrefixLen]
               /\ threads' = [threads EXCEPT ![t].pc = "push"]
    /\ UNCHANGED <<ipDB, mu, fatal>>
    /\ ThreadFrame

\* getIP: db.ips[k] = iface
GetIPWriteIps(t) ==
    /\ ~fatal
    /\ threads[t].pc = "get_w1"
    /\ ipDB' = [ipDB EXCEPT !.ips = Put(@, threads[t].k, threads[t].iface)]
    /\ threads' = [threads EXCEPT ![t].pc = "get_w2"]
    /\ UNCHANGED <<interfaces, mu, fatal>>
    /\ ThreadFrame

\* getIP: db.interfaces[iface] = k, the return, and configured() going on
\* with what getIP returned.
GetIPWriteInterfaces(t) ==
    /\ ~fatal
    /\ threads[t].pc = "get_w2"
    /\ LET i == threads[t].iface IN
       /\ ipDB' = [ipDB EXCEPT !.interfaces = Put(@, i, threads[t].k)]
       /\ interfaces' = [interfaces EXCEPT ![i].prefix = threads[t].k,
                                           ![i].prefixLen = ipDB.prefixLen]
    /\ threads' = [threads EXCEPT ![t].pc = "push", ![t].k = ""]
    /\ UNCHANGED <<mu, fatal>>
    /\ ThreadFrame

\* releaseIP: iface, ok := db.ips[ip]
ReleaseRead(t) ==
    /\ ~fatal
    /\ threads[t].pc = "rel_read"
    /\ LET ip == interfaces[threads[t].iface].prefix IN
       threads' = IF ip \in DOMAIN ipDB.ips
                  THEN [threads EXCEPT ![t].pc = "rel_del", ![t].k = ipDB.ips[ip]]
                  ELSE [threads EXCEPT ![t].pc = "rel_w"]
    /\ UNCHANGED <<interfaces, ipDB, mu, fatal>>
    /\ ThreadFrame

\* releaseIP: delete(db.interfaces, iface)
ReleaseDelete(t) ==
    /\ ~fatal
    /\ threads[t].pc = "rel_del"
    /\ ipDB' = [ipDB EXCEPT !.interfaces = Delete(@, threads[t].k)]
    /\ threads' = [threads EXCEPT ![t].pc = "rel_w", ![t].k = ""]
    /\ UNCHANGED <<interfaces, mu, fatal>>
    /\ ThreadFrame

\* releaseIP: db.ips[ip] = ""
ReleaseWrite(t) ==
    /\ ~fatal
    /\ threads[t].pc = "rel_w"
    /\ ipDB' = [ipDB EXCEPT !.ips = Put(@, interfaces[threads[t].iface].prefix, "")]
    /\ threads' = [threads EXCEPT ![t].pc = "unlock"]
    /\ UNCHANGED <<interfaces, mu, fatal>>
    /\ ThreadFrame

\* setPrefix returns, with or without an error, which configured() logs.
PushReturn(t) ==
    /\ ~fatal
    /\ threads[t].pc = "push"
    /\ threads' = [threads EXCEPT ![t].pc = "unlock"]
    /\ UNCHANGED <<interfaces, ipDB, mu, fatal>>
    /\ ThreadFrame

\* Two goroutines are in a method of ipDB, one of them about to write a map:
\* the maps have no lock of their own, and the Go runtime may end the process
\* with "concurrent map writes" or "concurrent map read and map write".
\* Nothing of the memory of the process is left then.
Crash ==
    /\ ~fatal
    /\ \E t \in ThreadIds : \E u \in ThreadIds \ {t} :
         threads[t].pc \in DBWritePcs /\ threads[u].pc \in DBPcs
    /\ fatal' = TRUE
    /\ interfaces' = EmptyMap
    /\ ipDB' = initIPs(NumIPs, DBPrefixLen)
    /\ threads' = [t \in ThreadIds |-> IdleThread]
    /\ mu' = [i \in Ifaces |-> NoThread]
    /\ ThreadFrame

ThreadNext ==
    \/ \E i \in Ifaces : \E v \in ThreadAdminValues[i] : Dispatch(i, "adminStatus", v)
    \/ \E i \in Ifaces : \E v \in LivePrefixValues[i] : Dispatch(i, "prefix", v)
    \/ \E i \in Ifaces : \E v \in LivePrefixLenValues[i] : Dispatch(i, "prefixLen", v)
    \/ \E i \in Ifaces : TimerFire(i)
    \/ \E t \in CallbackIds : OrphanFire(t)
    \/ \E t \in ThreadIds : LockStep(t)
    \/ \E t \in ThreadIds : BodyStep(t)
    \/ \E t \in ThreadIds : ReconcileRead(t)
    \/ \E t \in ThreadIds : ReconcileWriteIps(t)
    \/ \E t \in ThreadIds : ReconcileWriteInterfaces(t)
    \/ \E t \in ThreadIds : GetIPLookup(t)
    \/ \E t \in ThreadIds : GetIPScan(t)
    \/ \E t \in ThreadIds : GetIPWriteIps(t)
    \/ \E t \in ThreadIds : GetIPWriteInterfaces(t)
    \/ \E t \in ThreadIds : ReleaseRead(t)
    \/ \E t \in ThreadIds : ReleaseDelete(t)
    \/ \E t \in ThreadIds : ReleaseWrite(t)
    \/ \E t \in ThreadIds : PushReturn(t)
    \/ \E t \in ThreadIds : UnlockStep(t)
    \/ Crash

ThreadSpec == Init /\ [][ThreadNext]_vars

\* The Go scheduler runs every goroutine that can run, setPrefix returns, and
\* sync.Mutex hands the mutex to a goroutine that keeps waiting for it
\* (starvation mode), however often the others take it.
ThreadFairness ==
    \A t \in ThreadIds :
        /\ SF_vars(LockStep(t))
        /\ WF_vars(BodyStep(t))
        /\ WF_vars(ReconcileRead(t) \/ ReconcileWriteIps(t) \/ ReconcileWriteInterfaces(t))
        /\ WF_vars(GetIPLookup(t) \/ GetIPScan(t) \/ GetIPWriteIps(t)
                     \/ GetIPWriteInterfaces(t))
        /\ WF_vars(ReleaseRead(t) \/ ReleaseDelete(t) \/ ReleaseWrite(t))
        /\ WF_vars(PushReturn(t))
        /\ WF_vars(UnlockStep(t))

\* The threads of one interface: the stream talks about Ethernet1 only, so
\* no two threads are ever in ipDB together.
OneIfaceAdminValues ==
    [iface \in Ifaces |-> IF iface = "Ethernet1" THEN {"UP", "DOWN"} ELSE {}]

ThreadLiveNext ==
    \/ \E i \in Ifaces : \E v \in OneIfaceAdminValues[i] : Dispatch(i, "adminStatus", v)
    \/ \E i \in Ifaces : \E v \in LivePrefixValues[i] : Dispatch(i, "prefix", v)
    \/ \E i \in Ifaces : \E v \in LivePrefixLenValues[i] : Dispatch(i, "prefixLen", v)
    \/ \E i \in Ifaces : TimerFire(i)
    \/ \E t \in CallbackIds : OrphanFire(t)
    \/ \E t \in ThreadIds : LockStep(t)
    \/ \E t \in ThreadIds : BodyStep(t)
    \/ \E t \in ThreadIds : ReconcileRead(t)
    \/ \E t \in ThreadIds : ReconcileWriteIps(t)
    \/ \E t \in ThreadIds : ReconcileWriteInterfaces(t)
    \/ \E t \in ThreadIds : GetIPLookup(t)
    \/ \E t \in ThreadIds : GetIPScan(t)
    \/ \E t \in ThreadIds : GetIPWriteIps(t)
    \/ \E t \in ThreadIds : GetIPWriteInterfaces(t)
    \/ \E t \in ThreadIds : ReleaseRead(t)
    \/ \E t \in ThreadIds : ReleaseDelete(t)
    \/ \E t \in ThreadIds : ReleaseWrite(t)
    \/ \E t \in ThreadIds : PushReturn(t)
    \/ \E t \in ThreadIds : UnlockStep(t)

ThreadLiveSpec == Init /\ [][ThreadLiveNext]_vars /\ ThreadFairness

(***************************************************************************)
(* The target answers.  Handlers are atomic as in Spec; the target answers *)
(* every setPrefix request with success, and is then configured as         *)
(* requested, or with an error, and then keeps what it had.  The Address   *)
(* and PrefixLength notifications of the stream carry what the target is   *)
(* configured with.                                                        *)
(***************************************************************************)
Replies == {"ok", "error"}

\* What the target may be configured with when the program starts: only
\* Ethernet1 may have an address.
DeviceConfigs ==
    {[i \in Ifaces |-> IF i = "Ethernet1" THEN c ELSE NoAddress] :
       c \in {NoAddress, [prefix |-> ipName(1), prefixLen |-> 30]}}

\* The target after it answered the requests out with replies.
Target(dev, out, replies) ==
    LET asked(i) == {k \in DOMAIN out : out[k].iface = i}
        done(i)  == {k \in asked(i) : replies[k] = "ok"}
        last(S)  == CHOOSE k \in S : \A j \in S : j <= k
    IN [config  |-> [i \in Ifaces |->
                       IF done(i) # {}
                       THEN [prefix |-> out[last(done(i))].prefix,
                             prefixLen |-> out[last(done(i))].prefixLen]
                       ELSE dev.config[i]],
        replies |-> replies,
        owed    |-> [i \in Ifaces |->
                       IF asked(i) # {} THEN replies[last(asked(i))] = "error"
                       ELSE dev.owed[i]]]

\* configured() undoing the binding when setPrefix returned an error.
setPrefixFailed_rollback(c) ==
    [c EXCEPT !.db = [@ EXCEPT !.interfaces = Delete(@, c.sm.name),
                               !.ips = IF c.sm.prefix \in DOMAIN @
                                       THEN Put(@, c.sm.prefix, "") ELSE @]]

\* configured() when setPrefix returned an error: the error is logged.
setPrefixFailed(c) == c

DeviceCommit(iface, c1, used) ==
    \E replies \in [DOMAIN c1.out -> Replies] :
        /\ Commit(iface,
                  IF \E k \in DOMAIN replies : replies[k] = "error"
                  THEN setPrefixFailed(c1) ELSE c1,
                  used)
        /\ device' = Target(device, c1.out, replies)

DeviceAdminStatusEvent(iface, value) ==
    \E c1 \in adminStatusEventHandler(Ctx(iface), value) :
        DeviceCommit(iface, c1, 0)

DevicePrefixEvent(iface) ==
    /\ device.config[iface].prefix # ""
    /\ \E c1 \in prefixEventHandler(Ctx(iface), device.config[iface].prefix) :
           DeviceCommit(iface, c1, 0)

DevicePrefixLenEvent(iface) ==
    /\ device.config[iface].prefix # ""
    /\ \E c1 \in prefixLenEventHandler(Ctx(iface), ToString(device.config[iface].prefixLen)) :
           DeviceCommit(iface, c1, 0)

DeviceTimerExpire(iface) ==
    /\ TimerExpire(iface)
    /\ device' = [device EXCEPT !.replies = <<>>]

DeviceTimerEvent(iface) ==
    /\ iface \in DOMAIN interfaces
    /\ pending[iface] > 0
    /\ \E c1 \in timerEventHandler(Ctx(iface)) :
           DeviceCommit(iface, c1, 1)

DeviceInit ==
    /\ interfaces = EmptyMap
    /\ ipDB = initIPs(NumIPs, DBPrefixLen)
    /\ pending = [i \in Ifaces |-> 0]
    /\ log = EmptyLog
    /\ cfgRuns = [i \in Ifaces |-> 0]
    /\ threads = [t \in ThreadIds |-> IdleThread]
    /\ mu = [i \in Ifaces |-> NoThread]
    /\ fatal = FALSE
    /\ script = ScriptOff
    /\ \E c \in DeviceConfigs : device = [NoDevice EXCEPT !.config = c]

DeviceNext ==
    \/ \E i \in Ifaces : \E v \in ThreadAdminValues[i] :
         DeviceAdminStatusEvent(i, v) /\ UNCHANGED <<script, threadVars>>
    \/ \E i \in Ifaces : DevicePrefixEvent(i) /\ UNCHANGED <<script, threadVars>>
    \/ \E i \in Ifaces : DevicePrefixLenEvent(i) /\ UNCHANGED <<script, threadVars>>
    \/ \E i \in Ifaces : DeviceTimerExpire(i) /\ UNCHANGED <<script, threadVars>>
    \/ \E i \in Ifaces : DeviceTimerEvent(i) /\ UNCHANGED <<script, threadVars>>

DeviceSpec == DeviceInit /\ [][DeviceNext]_vars

\* The stream keeps delivering what the target is configured with, and the
\* timers act as under Fairness.
DeviceFairness ==
    \A i \in Ifaces :
        /\ WF_vars(DevicePrefixEvent(i) /\ UNCHANGED <<script, threadVars>>)
        /\ WF_vars(DevicePrefixLenEvent(i) /\ UNCHANGED <<script, threadVars>>)
        /\ WF_vars(DeviceTimerExpire(i) /\ UNCHANGED <<script, threadVars>>)
        /\ WF_vars(DeviceTimerEvent(i) /\ UNCHANGED <<script, threadVars>>)

DeviceLiveSpec == DeviceInit /\ [][DeviceNext]_vars /\ DeviceFairness

(***************************************************************************)
(* The event loop: getEvent, dispatchEvent and eventLoop.                  *)
(***************************************************************************)
\* The types of events.
unknownEvent == 0
adminStatusEvent == 1
prefixEvent == 2
prefixLenEvent == 3

\* The string s has the literal lit at position p.
At(s, p, lit) ==
    /\ p >= 1
    /\ p + Len(lit) - 1 <= Len(s)
    /\ SubSeq(s, p, p + Len(lit) - 1) = lit

\* [^]]* from position a to position b of s.
NoBracket(s, a, b) == \A q \in a..b : SubSeq(s, q, q) # "]"

\* The matches of /interfaces/interface\[name=(Ethernet[^]]*)\] in s: where
\* the match begins, and where its closing bracket is.
IfaceRe == "/interfaces/interface[name="
IfaceMatches(s) ==
    {m \in [p : {p \in 1..Len(s) : At(s, p, IfaceRe \o "Ethernet")}, e : 1..Len(s)] :
        /\ m.e >= m.p + Len(IfaceRe) + Len("Ethernet")
        /\ At(s, m.e, "]")
        /\ NoBracket(s, m.p + Len(IfaceRe), m.e - 1)}

\* The matches of /.*/address\[ip=[^]]*\]<leaf> in s from position a on.
AddressMatches(s, a, leaf) ==
    {m \in [q : {q \in a + 1..Len(s) : At(s, q, "/address[ip=")}, r : 1..Len(s)] :
        /\ At(s, a, "/")
        /\ m.r >= m.q + Len("/address[ip=")
        /\ At(s, m.r, "]")
        /\ NoBracket(s, m.q + Len("/address[ip="), m.r - 1)
        /\ At(s, m.r + 1, leaf)}

\* eventsRe: the matches of the regular expression of an event type in s.
eventsRe(evType, s) ==
    {m \in IfaceMatches(s) :
        CASE evType = adminStatusEvent -> At(s, m.e + 1, "/state/admin-status")
          [] evType = prefixEvent -> AddressMatches(s, m.e + 1, "/state/ip") # {}
          [] evType = prefixLenEvent ->
               AddressMatches(s, m.e + 1, "/state/prefix-length") # {}}

\* getEvent: the events it may return.  The range over eventsRe visits the
\* event types in an order Go leaves unspecified and returns at the first
\* that matches; FindStringSubmatch answers the leftmost match, whose first
\* group is the interface name.
getEvent(path) ==
    LET types == {t \in {adminStatusEvent, prefixEvent, prefixLenEvent} :
                    eventsRe(t, path) # {}}
        first(t) == CHOOSE m \in eventsRe(t, path) : \A n \in eventsRe(t, path) : m.p <= n.p
    IN IF types = {} THEN {[evType |-> unknownEvent, iface |-> ""]}
       ELSE {[evType |-> t,
              iface  |-> SubSeq(path, first(t).p + Len(IfaceRe), first(t).e - 1)] :
               t \in types}

\* The paths of the notifications.
AdminStatusPath(name) == IfaceRe \o name \o "]/state/admin-status"
AddressPath(name, ip, leaf) ==
    IfaceRe \o name \o "]/subinterfaces/subinterface[index=0]/ipv4/addresses/address[ip="
            \o ip \o "]/state/" \o leaf

\* The updates of the stream of LoopSpec: a path and the value at it.  The
\* last two are leaves the patterns do not cover.
LoopUpdates ==
    {[path |-> AdminStatusPath("Ethernet1"), value |-> v] : v \in {"UP", "DOWN", "TESTING"}}
      \cup {[path |-> AdminStatusPath("Ethernet2"), value |-> "UP"]}
      \cup {[path |-> AddressPath("Ethernet1", ipName(1), "ip"), value |-> ipName(1)]}
      \cup {[path |-> AddressPath("Ethernet1", ipName(1), "prefix-length"), value |-> v] :
              v \in {"24", "abc"}}
      \cup {[path |-> AdminStatusPath("Management1"), value |-> "UP"],
            [path |-> IfaceRe \o "Ethernet1]/state/oper-status", value |-> "UP"]}

\* getEvent on the paths of the stream.
EventsOf == [path \in {u.path : u \in LoopUpdates} |-> getEvent(path)]

\* The responses of the subscription and the errors of the error channel.
Responses ==
    {[type |-> "Error", value |-> "server error"],
     [type |-> "SyncResponse", value |-> "true"],
     [type |-> "SyncResponse", value |-> "false"],
     [type |-> "errChan", value |-> "stream closed"]}

\* eventLoop returning at every sync response.
eventLoopReturns_anySync(resp) ==
    \/ resp.type = "Error"
    \/ resp.type = "SyncResponse"
    \/ resp.type = "errChan"

\* eventLoop: whether it returns an error on the response resp.
eventLoopReturns(resp) ==
    \/ resp.type = "Error"
    \/ resp.type = "SyncResponse" /\ resp.value = "false"
    \/ resp.type = "errChan"

\* The event loop is in its select.
LoopRunning == threads[LoopId].pc = "idle"

\* dispatchEvent: the handler of the event type, and a log line otherwise.
dispatchEvent(ev, value) ==
    IF ev.evType = adminStatusEvent
    THEN \E c1 \in adminStatusEventHandler(Ctx(ev.iface), value) :
             DeviceCommit(ev.iface, c1, 0)
    ELSE IF ev.evType = prefixEvent
    THEN \E c1 \in prefixEventHandler(Ctx(ev.iface), value) : DeviceCommit(ev.iface, c1, 0)
    ELSE IF ev.evType = prefixLenEvent
    THEN \E c1 \in prefixLenEventHandler(Ctx(ev.iface), value) : DeviceCommit(ev.iface, c1, 0)
    ELSE /\ log' = EmptyLog
         /\ device' = [device EXCEPT !.replies = <<>>]
         /\ UNCHANGED <<interfaces, ipDB, pending, cfgRuns>>

\* eventLoop on an update: one leaf of the message is dispatched.
LoopUpdate(path, value) ==
    /\ LoopRunning
    /\ \E ev \in EventsOf[path] : dispatchEvent(ev, value)
    /\ UNCHANGED <<script, threadVars>>

\* eventLoop on a response that is no update, or on an error of errChan.
LoopResponse(resp) ==
    /\ LoopRunning
    /\ threads' = IF eventLoopReturns(resp)
                  THEN [threads EXCEPT ![LoopId] =
                          [IdleThread EXCEPT !.pc = "returned", !.kind = resp.type,
                                             !.value = resp.value]]
                  ELSE threads
    /\ log' = EmptyLog
    /\ device' = [device EXCEPT !.replies = <<>>]
    /\ UNCHANGED <<interfaces, ipDB, pending, cfgRuns, script, mu, fatal>>

\* main ends the process when eventLoop has returned: the timers act while
\* the loop runs.
LoopNext ==
    \/ \E u \in LoopUpdates : LoopUpdate(u.path, u.value)
    \/ \E resp \in Responses : LoopResponse(resp)
    \/ \E i \in Ifaces :
         LoopRunning /\ DeviceTimerExpire(i) /\ UNCHANGED <<script, threadVars>>
    \/ \E i \in Ifaces :
         LoopRunning /\ DeviceTimerEvent(i) /\ UNCHANGED <<script, threadVars>>

LoopSpec == Init /\ [][LoopNext]_vars

TypeOK ==
    /\ DOMAIN interfaces \subseteq Ifaces
    /\ \A i \in DOMAIN interfaces :
         /\ interfaces[i].state \in {unknown, adminDown, adminUp, configured}
         /\ interfaces[i].name = i
         /\ interfaces[i].timer \in TimerStates
    /\ \A i \in Ifaces : pending[i] \in 0..MaxPending

(***************************************************************************)
(* Properties.                                                             *)
(***************************************************************************)
\* The interfaceSm of iface, as getInterfaceSm would return it.
SmOf(iface) == getInterfaceSm(interfaces, iface)[iface]

Holders(a) == {i \in DOMAIN ipDB.interfaces : ipDB.interfaces[i] = a}

\* C1: handling AdminStatus="DOWN" leaves the interface in adminDown, and
\* right afterwards the address it had recorded is unassigned in the pool.
\* (adminDown() runs in the "DOWN" case of adminStatusEventHandler and nowhere
\* else; log.down holds what it was entered with.)
C1_AdminDownReleases ==
    \A k \in DOMAIN log.down :
        /\ interfaces[log.down[k].iface].state = adminDown
        /\ log.down[k].prefix \in DOMAIN ipDB.ips
        /\ ipDB.ips[log.down[k].prefix] = ""

\* Scenario D: a configured interface holding a pool address went down and
\* the address is unassigned.
C1_Witness ==
    \E k \in DOMAIN log.down :
        /\ log.down[k].state = configured
        /\ log.down[k].prefix \in InitialPool
        /\ interfaces[log.down[k].iface].state = adminDown
        /\ ipDB.ips[log.down[k].prefix] = ""

\* C2: allocation uniqueness: no two interfaces hold the same address in the
\* reverse map, and the holder the reverse map names for an address is the
\* one the pool map names.
C2_AllocationUnique ==
    /\ \A a \in DOMAIN ipDB.ips : Cardinality(Holders(a)) <= 1
    /\ \A i \in DOMAIN ipDB.interfaces :
         /\ ipDB.interfaces[i] \in DOMAIN ipDB.ips
         /\ ipDB.ips[ipDB.interfaces[i]] = i

\* An interface entered configured with an address another interface held,
\* and both interfaces hold an address now.
C2_Witness ==
    /\ \E k \in DOMAIN log.cfg :
         /\ log.cfg[k].complete
         /\ log.cfg[k].owner \in Ifaces \ {log.cfg[k].iface}
    /\ DOMAIN ipDB.interfaces = Ifaces

\* C3: an interface that entered adminUp with incomplete fragments becomes
\* configured through its timer unless an AdminStatus="DOWN" takes it to
\* adminDown first (so it does when no further notification comes), and
\* configured() runs exactly once for that entry into adminUp.
C3_GracePeriod ==
    /\ \A i \in Ifaces :
          [](( /\ i \in DOMAIN interfaces
               /\ interfaces[i].state = adminUp
               /\ ~configComplete(interfaces[i]) )
             => <>( \/ SmOf(i).state = configured /\ cfgRuns[i] = 1
                    \/ /\ SmOf(i).state = adminDown
                       /\ \E k \in DOMAIN log.down : log.down[k].iface = i ))
    /\ [](\A i \in DOMAIN interfaces :
            /\ cfgRuns[i] <= 1
            /\ interfaces[i].state = configured => cfgRuns[i] = 1
            /\ interfaces[i].state = adminUp =>
                  ~configComplete(interfaces[i]) /\ cfgRuns[i] = 0)

\* Scenario A: configured() ran for an interface in adminUp that had no
\* address, which only the timer callback makes it do, and sent a setPrefix.
C3_Witness ==
    \E k \in DOMAIN log.cfg :
        /\ log.cfg[k].prefix = ""
        /\ interfaces[log.cfg[k].iface].state = configured
        /\ cfgRuns[log.cfg[k].iface] = 1
        /\ Len(log.out) = 1

\* C4: delivering the same AdminStatus, Address and PrefixLength values a
\* second time, in any order, leaves the interface in the state it had after
\* the first delivery, and the two deliveries send at most one setPrefix.
C4_DuplicateDelivery ==
    script.phase = "done" =>
        /\ interfaces[script.iface].state = script.mark
        /\ script.pushes <= 1

\* Both deliveries were made, the first one configured the interface and
\* sent a setPrefix.
C4_Witness ==
    /\ script.phase = "done"
    /\ script.vals.adminStatus = "UP"
    /\ script.mark = configured
    /\ script.pushes = 1

\* C5 as claimed: entering configured with complete fragments and an address
\* the database already binds to this interface sends no setPrefix.
C5_BoundAddressNoPush ==
    \A k \in DOMAIN log.cfg :
        (log.cfg[k].complete /\ log.cfg[k].owner = log.cfg[k].iface)
            => log.out = <<>>

\* C5 amended: ... and with the database's prefix length collected ...
C5_BoundAddressSameLenNoPush ==
    \A k \in DOMAIN log.cfg :
        ( /\ log.cfg[k].complete
          /\ log.cfg[k].owner = log.cfg[k].iface
          /\ log.cfg[k].prefixLen = ipDB.prefixLen )
            => log.out = <<>>

C5_Witness ==
    \E k \in DOMAIN log.cfg :
        /\ log.cfg[k].complete
        /\ log.cfg[k].owner = log.cfg[k].iface
        /\ log.cfg[k].prefixLen = ipDB.prefixLen
        /\ interfaces[log.cfg[k].iface].state = configured
        /\ log.out = <<>>

\* C6: the result of reconcile on entering configured with complete
\* fragments.  An address of the pool that is unassigned or bound to this
\* interface is bound to it and kept, with no setPrefix iff the collected
\* prefix length is the database's, and otherwise one setPrefix of the same
\* address with the database's prefix length, which the interface records.
\* Any other address is replaced by what getIP gives, and one setPrefix of
\* it is sent.
C6_ReconcileResult ==
    \A k \in DOMAIN log.cfg :
        LET e  == log.cfg[k]
            sm == interfaces[e.iface]
        IN e.complete =>
             IF e.inPool /\ e.owner \in {"", e.iface}
             THEN /\ ipDB.ips[e.prefix] = e.iface
                  /\ ipDB.interfaces[e.iface] = e.prefix
                  /\ sm.prefix = e.prefix
                  /\ sm.prefixLen = ipDB.prefixLen
                  /\ (log.out = <<>>) <=> (e.prefixLen = ipDB.prefixLen)
                  /\ e.prefixLen # ipDB.prefixLen =>
                         log.out = <<setPrefix(e.iface, e.prefix, ipDB.prefixLen)>>
             ELSE /\ log.out = <<setPrefix(e.iface, sm.prefix, sm.prefixLen)>>
                  /\ \/ /\ sm.prefix = ExhaustedIP
                        /\ sm.prefixLen = ExhaustedPrefixLen
                        /\ e.iface \notin DOMAIN ipDB.interfaces
                     \/ /\ e.iface \in DOMAIN ipDB.interfaces
                        /\ ipDB.interfaces[e.iface] = sm.prefix
                        /\ ipDB.ips[sm.prefix] = e.iface
                        /\ sm.prefixLen = ipDB.prefixLen

\* Scenario C: a kept address with another prefix length is pushed with the
\* database's prefix length.
C6_Witness ==
    \E k \in DOMAIN log.cfg :
        /\ log.cfg[k].complete
        /\ log.cfg[k].inPool
        /\ log.cfg[k].owner = ""
        /\ log.cfg[k].prefixLen = 30
        /\ log.out = <<setPrefix(log.cfg[k].iface, log.cfg[k].prefix, DBPrefixLen)>>

\* C7 as claimed: the timer callback of an interface in adminUp with no
\* address, when some address of the pool is unassigned, binds the interface
\* to one of the initial pool addresses that was unassigned, records the
\* database's prefix length and sends one setPrefix of them.
C7_TimerAllocates ==
    [][\A i \in Ifaces :
         ( /\ TimerEvent(i)
           /\ interfaces[i].state = adminUp
           /\ interfaces[i].prefix = ""
           /\ \E a \in DOMAIN ipDB.ips : ipDB.ips[a] = "" )
         => LET p == interfaces'[i].prefix IN
              /\ p \in InitialPool
              /\ ipDB.ips[p] = ""
              /\ ipDB'.ips[p] = i
              /\ interfaces'[i].prefixLen = DBPrefixLen
              /\ log'.out = <<setPrefix(i, p, DBPrefixLen)>>]_vars

\* C8 as claimed: an interface has an entry in the reverse map iff some
\* address of the pool map is mapped to it.
C8_ReverseIffPool ==
    \A i \in Ifaces :
        (i \in DOMAIN ipDB.interfaces) <=> (\E a \in DOMAIN ipDB.ips : ipDB.ips[a] = i)

\* C9 as claimed: releasing an address that is no member of the pool changes
\* nothing in the database, and the pool holds the initial addresses only.
C9_ReleaseOutsidePool ==
    [][\A i \in Ifaces :
         AdminStatusEvent(i, "DOWN") =>
             /\ Ctx(i).sm.prefix \notin DOMAIN ipDB.ips => ipDB' = ipDB
             /\ DOMAIN ipDB'.ips = InitialPool]_vars

\* C10 as claimed: a PrefixLength value that is no number leaves the prefix
\* length, the state and the database as they were and sends no setPrefix.
C10_BadPrefixLenIgnored ==
    [][\A i \in Ifaces : \A v \in PrefixLenValues[i] :
         (Atoi(v).err /\ PrefixLenEvent(i, v)) =>
             /\ interfaces'[i].prefixLen = Ctx(i).sm.prefixLen
             /\ interfaces'[i].state = Ctx(i).sm.state
             /\ ipDB' = ipDB
             /\ log'.out = <<>>]_vars

\* C11 as claimed: when getIP finds no unassigned address it answers
\* 1.1.1.1/32 and binds nothing, and 1.1.1.1 never becomes a key of the pool
\* map and is never bound to an interface, whatever comes later.
C11_SentinelNeverAccepted ==
    /\ \A k \in DOMAIN log.cfg :
         log.out = <<setPrefix(log.cfg[k].iface, ExhaustedIP, ExhaustedPrefixLen)>>
             => log.cfg[k].iface \notin DOMAIN ipDB.interfaces
    /\ ExhaustedIP \notin DOMAIN ipDB.ips
    /\ \A i \in DOMAIN ipDB.interfaces : ipDB.interfaces[i] # ExhaustedIP

\* The threads that are inside getIP, reconcile or releaseIP.
InDatabase == {t \in ThreadIds : threads[t].pc \in DBPcs}

\* C12 as claimed: with the interface's mutex as the only lock, no two of
\* getIP, reconcile and releaseIP are in progress at the same time, the
\* runtime never finds the maps used concurrently, and no address ends up
\* held by two interfaces.
C12_DatabaseOpsExclusive ==
    /\ Cardinality(InDatabase) <= 1
    /\ ~fatal
    /\ \A a \in DOMAIN ipDB.ips : Cardinality(Holders(a)) <= 1

\* The threads that are between sm.mu.Lock() and sm.mu.Unlock() of
\* interface i.
InCritical(i) ==
    {t \in ThreadIds : threads[t].iface = i /\ threads[t].pc \in CriticalPcs}

\* C13: at most one handler of an interface is between Lock and Unlock of
\* its mutex at any time; the mutex is held by a thread that is inside a
\* handler of that interface and by no thread that has returned; and a
\* handler that waits for the mutex gets it.
C13_MutualExclusion ==
    /\ [](\A i \in Ifaces :
            /\ Cardinality(InCritical(i)) <= 1
            /\ \A t \in InCritical(i) : mu[i] = t
            /\ mu[i] # NoThread => mu[i] \in InCritical(i))
    /\ \A t \in ThreadIds : (threads[t].pc = "lock") ~> (threads[t].pc # "lock")

\* The event loop waits for the mutex of an interface whose timer callback
\* is inside configured().
C13_Witness ==
    \E t \in CallbackIds :
        /\ threads[t].pc \in CfgPcs
        /\ mu[t.iface] = t
        /\ threads[LoopId].pc = "lock"
        /\ threads[LoopId].iface = t.iface

\* C14 as claimed: the callback of a timer that was armed before the
\* interface entered adminDown never runs configured(), whatever the
\* interleaving of the callback with the event loop.
C14_StaleTimerNeverConfigures ==
    \A t \in CallbackIds : threads[t].stale => threads[t].pc \notin CfgPcs

\* C15: when the target answers the setPrefix request of configured() with
\* an error, the interface is configured afterwards and records the address
\* and prefix length it asked for, the database still binds that address to
\* the interface (or nothing, when the request carried the answer of an
\* exhausted pool), and the transition sent no other request.
C15_PushFailureKept ==
    \A k \in DOMAIN log.out :
        device.replies[k] = "error" =>
            LET r  == log.out[k]
                sm == interfaces[r.iface]
            IN /\ sm.state = configured
               /\ sm.prefix = r.prefix
               /\ sm.prefixLen = r.prefixLen
               /\ \/ /\ r.iface \in DOMAIN ipDB.interfaces
                     /\ ipDB.interfaces[r.iface] = r.prefix
                     /\ ipDB.ips[r.prefix] = r.iface
                  \/ /\ r.iface \notin DOMAIN ipDB.interfaces
                     /\ r.prefix = ExhaustedIP
                     /\ r.prefixLen = ExhaustedPrefixLen
               /\ Len(log.out) = 1

\* A request for an address of the pool failed: the target has not got it.
C15_Witness ==
    \E k \in DOMAIN log.out :
        /\ device.replies[k] = "error"
        /\ log.out[k].prefix \in InitialPool
        /\ interfaces[log.out[k].iface].state = configured
        /\ ipDB.ips[log.out[k].prefix] = log.out[k].iface
        /\ device.config[log.out[k].iface].prefix # log.out[k].prefix

\* The step taken last sent a setPrefix request for interface i.
Pushed(i) == \E k \in DOMAIN log.out : log.out[k].iface = i

\* The target is configured with what the database assigns to interface i.
Converged(i) ==
    /\ i \in DOMAIN ipDB.interfaces
    /\ device.config[i] = [prefix |-> ipDB.interfaces[i], prefixLen |-> ipDB.prefixLen]

\* C16 as claimed: after a setPrefix request of an interface failed, with the
\* stream delivering the address and prefix length the target really has,
\* the program sends a new request for that interface (or the target has
\* what the database assigns), with no need of AdminStatus="DOWN".
C16_EventualCorrection ==
    \A i \in Ifaces :
        (device.owed[i] /\ device.config[i].prefix # "" /\ ~Pushed(i))
            ~> (Pushed(i) \/ Converged(i) \/ SmOf(i).state = adminDown)

(***************************************************************************)
(* C17: the event loop returns only on an error response of the stream,    *)
(* on a sync response reporting a failed initial sync, or on an error of   *)
(* the error channel.  No update ends it: not an unknown administrative    *)
(* status, a prefix length that is no number, an exhausted pool or a       *)
(* failed push; and an update whose path matches none of the patterns      *)
(* changes neither the interface records nor the address database.         *)
(***************************************************************************)
C17_LoopEndsOnlyOnStreamFailure ==
    /\ [](threads[LoopId].pc = "returned" =>
            \/ threads[LoopId].kind \in {"Error", "errChan"}
            \/ threads[LoopId].kind = "SyncResponse" /\ threads[LoopId].value = "false")
    /\ [][\A u \in LoopUpdates :
            /\ EventsOf[u.path] = {[evType |-> unknownEvent, iface |-> ""]}
            /\ LoopUpdate(u.path, u.value)
            => LoopRunning' /\ interfaces' = interfaces /\ ipDB' = ipDB]_vars

\* The loop still runs after the push of the sentinel address, handed out by
\* the exhausted pool, failed.
C17_Witness ==
    /\ LoopRunning
    /\ \E k \in DOMAIN log.out :
         log.out[k].prefix = ExhaustedIP /\ device.replies[k] = "error"

(***************************************************************************)
(* C18: when the interface is in a state other than adminUp (unknown, also *)
(* of a record not yet created, adminDown or configured), an Address or    *)
(* PrefixLength notification overwrites the field it is about and nothing  *)
(* else: state, timer and the other field of the record stay, the address  *)
(* database stays, no setPrefix request is sent and no timer callback is   *)
(* started or dropped.  An interface leaves configured only for adminDown, *)
(* by a step that ran adminDown().                                         *)
(***************************************************************************)
C18_FragmentOnlyStored ==
    [][\A i \in Ifaces :
         /\ SmOf(i).state # adminUp =>
              /\ \A v \in PrefixValues[i] :
                    PrefixEvent(i, v) =>
                      /\ interfaces' = Put(interfaces, i, [SmOf(i) EXCEPT !.prefix = v])
                      /\ ipDB' = ipDB /\ pending' = pending
                      /\ log'.out = <<>> /\ log'.cfg = <<>>
              /\ \A v \in PrefixLenValues[i] :
                    PrefixLenEvent(i, v) =>
                      /\ DOMAIN interfaces' = DOMAIN interfaces \cup {i}
                      /\ [interfaces'[i] EXCEPT !.prefixLen = 0] =
                           [SmOf(i) EXCEPT !.prefixLen = 0]
                      /\ \A j \in DOMAIN interfaces \ {i} : interfaces'[j] = interfaces[j]
                      /\ ipDB' = ipDB /\ pending' = pending
                      /\ log'.out = <<>> /\ log'.cfg = <<>>
         /\ SmOf(i).state = configured /\ interfaces'[i].state # configured =>
              /\ interfaces'[i].state = adminDown
              /\ \E k \in DOMAIN log'.down : log'.down[k].iface = i]_vars

\* A configured interface whose recorded address a notification overwrote:
\* it differs from the address the database binds to the interface, and the
\* step taken last ran neither configured() nor setPrefix.
C18_Witness ==
    \E i \in DOMAIN interfaces :
        /\ interfaces[i].state = configured
        /\ i \in DOMAIN ipDB.interfaces
        /\ interfaces[i].prefix # ipDB.interfaces[i]
        /\ log.out = <<>> /\ log.cfg = <<>> /\ log.down = <<>>

(***************************************************************************)
(* C19 as claimed: while configured() of an interface is in progress, in   *)
(* whichever thread, the event loop is free to take a notification of a    *)
(* different interface, or is handling one without waiting for the thread  *)
(* that is inside configured().                                            *)
(***************************************************************************)
C19_InterfacesIndependent ==
    \A t \in ThreadIds :
        threads[t].pc \in CfgPcs =>
            LET l == threads[LoopId] IN
            \/ l.pc = "idle"
            \/ /\ l.iface # threads[t].iface
               /\ l.pc = "lock" => mu[MutexOf(l.iface)] # t

\* C19 amended: while configured() of an interface is in progress in the
\* callback of the interface's timer, and the event loop is not handling a
\* notification of that same interface, the event loop is free to take a
\* notification, or is handling one of another interface without waiting
\* for the callback: the mutex it waits for is not the callback's.
C19_CallbackDelaysOwnInterfaceOnly ==
    \A t \in CallbackIds :
        LET l == threads[LoopId] IN
        threads[t].pc \in CfgPcs /\ l.iface # t.iface =>
            \/ l.pc = "idle"
            \/ l.pc = "lock" => mu[MutexOf(l.iface)] # t

\* The callback of one interface is inside configured() while the event loop
\* holds the mutex of another interface and handles its notification.
C19_Witness ==
    \E t \in CallbackIds :
        /\ threads[t].pc \in CfgPcs
        /\ threads[LoopId].pc \in CriticalPcs
        /\ threads[LoopId].iface # t.iface
        /\ mu[threads[LoopId].iface] = LoopId
        /\ mu[t.iface] = t

\* The pool addresses the pool map assigns to interface i.
BoundTo(i) == {a \in DOMAIN ipDB.ips : ipDB.ips[a] = i}

\* C20 as claimed: every interface is assigned at most one address of the
\* pool, and the pool map and the reverse map are inverses of each other:
\* the pool map assigns address a to interface i iff the reverse map binds i
\* to a.
C20_NoAddressLeak ==
    \A i \in Ifaces :
        /\ Cardinality(BoundTo(i)) <= 1
        /\ \A a \in DOMAIN ipDB.ips :
              ipDB.ips[a] = i <=> (i \in DOMAIN ipDB.interfaces /\ ipDB.interfaces[i] = a)

(***************************************************************************)
(* C21 as claimed: handling AdminStatus="DOWN" of an interface leaves the  *)
(* binding of every other interface as it was, in the reverse map and in   *)
(* the pool map.  And when configured() has just run for an interface and  *)
(* left it with an address other than 1.1.1.1, no other configured         *)
(* interface whose recorded address is the one configured() gave it (an    *)
(* interface the stream sends no Address for) records the same address.    *)
(***************************************************************************)
C21_DownKeepsOthersBindings ==
    /\ [][\A i \in Ifaces :
            AdminStatusEvent(i, "DOWN") =>
                \A j \in DOMAIN ipDB.interfaces \ {i} :
                    /\ j \in DOMAIN ipDB'.interfaces
                    /\ ipDB'.interfaces[j] = ipDB.interfaces[j]
                    /\ ipDB'.ips[ipDB.interfaces[j]] = ipDB.ips[ipDB.interfaces[j]]]_vars
    /\ [](\A k \in DOMAIN log.cfg :
            LET i == log.cfg[k].iface IN
            (interfaces[i].state = configured /\ interfaces[i].prefix # ExhaustedIP) =>
                \A j \in DOMAIN interfaces \ {i} :
                    (PrefixValues[j] = {} /\ interfaces[j].state = configured)
                        => interfaces[j].prefix # interfaces[i].prefix)

(***************************************************************************)
(* C22 as claimed: every setPrefix request carries an address that is not  *)
(* empty and is one of the initial pool addresses or 1.1.1.1, with the     *)
(* prefix length 32 when it is 1.1.1.1 and the database's prefix length    *)
(* otherwise, which is positive; and the empty address is never a key of   *)
(* the pool map, so getIP cannot hand it out.                              *)
(***************************************************************************)
C22_PushCarriesPoolAddress ==
    /\ \A k \in DOMAIN log.out :
          /\ log.out[k].prefix # ""
          /\ log.out[k].prefix \in InitialPool \cup {ExhaustedIP}
          /\ log.out[k].prefixLen > 0
          /\ log.out[k].prefixLen =
                IF log.out[k].prefix = ExhaustedIP THEN ExhaustedPrefixLen ELSE DBPrefixLen
    /\ "" \notin DOMAIN ipDB.ips

====
